---- MODULE Spec2Model ----
(***************************************************************************)
(* Model of scripts/fix-ts-errors.py: a batch script that removes the      *)
(* obsolete `schoolId ... // CRITICAL: Filter by school` clause from a     *)
(* fixed list of files with two regular-expression substitutions, warns    *)
(* about two kinds of reference that need manual review, and rewrites a    *)
(* file in place when its text changed.                                    *)
(*                                                                         *)
(* Text is a sequence of one-character strings.  The regular expressions   *)
(* are interpreted character by character by a backtracking matcher with   *)
(* greedy quantifiers, the way Python's re module runs them.               *)
(***************************************************************************)
EXTENDS Integers, Sequences, FiniteSets, TLC

(***************************************************************************)
(* Bounds of the model.                                                    *)
(***************************************************************************)
\* Number of entries of files_to_fix the model runs over (the script lists 12).
NumTargets == 2
\* Longest input text of the pure-function specification, in pieces.
MaxPieces == 3
\* How many times the pure-function specification applies the fix in a row.
MaxRuns == 2
\* Granularity, in characters, of what a failed write can leave on disk.
WriteBlock == 16

VARIABLES
    linesep,      \* os.linesep of the platform the script runs on
    disk,         \* the file system: path -> [exists, data]
    disk0,        \* the file system as it was before the run (history)
    pc,           \* position of the single thread of control
    idx,          \* position of main's for loop in files_to_fix
    original,     \* fix_file's local `original`
    content,      \* fix_file's local `content`
    retval,       \* value fix_file returned to main
    fixed_count,  \* main's local fixed_count
    log,          \* console output, one record per printed line
    calls,        \* paths fix_file was invoked on, in order (history)
    opened_w,     \* paths that were opened with mode 'w' (history)
    read_ok,      \* paths whose text was read successfully (history)
    fn_in,        \* pure-function specification: the input text
    fn_arg,       \* pure-function specification: argument of the last application
    fn_out,       \* pure-function specification: result of the last application
    fn_runs       \* pure-function specification: number of applications so far

vars == <<linesep, disk, disk0, pc, idx, original, content, retval,
          fixed_count, log, calls, opened_w, read_ok, fn_in, fn_arg, fn_out, fn_runs>>

batchVars == <<linesep, disk, disk0, idx, original, content, retval,
               fixed_count, log, calls, opened_w, read_ok>>

fnVars == <<fn_in, fn_arg, fn_out, fn_runs>>

(***************************************************************************)
(* Text                                                                    *)
(***************************************************************************)
LF == <<"\n">>
CRLF == <<"\r", "\n">>

\* The characters \s matches among those the model's texts are made of.
WhiteSpace == {" ", "\t", "\n", "\r", "\f"}

RECURSIVE Flatten(_)
Flatten(ss) == IF ss = <<>> THEN <<>> ELSE Head(ss) \o Flatten(Tail(ss))

\* Python's `sub in s` for strings.
Contains(s, sub) ==
    \E i \in 1..(Len(s) - Len(sub) + 1) : SubSeq(s, i, i + Len(sub) - 1) = sub

T_schoolIdColon == <<"s","c","h","o","o","l","I","d",":">>
T_contextSchoolId == <<"c","o","n","t","e","x","t",".","s","c","h","o","o","l","I","d",",">>
T_schoolIdComma == <<"s","c","h","o","o","l","I","d",",">>
T_slashes == <<"/","/">>
T_CRITICAL == <<"C","R","I","T","I","C","A","L",":">>
T_FilterBySchool == <<"F","i","l","t","e","r"," ","b","y"," ","s","c","h","o","o","l">>
T_userTeacher == <<"u","s","e","r",".","t","e","a","c","h","e","r">>
T_include == <<"i","n","c","l","u","d","e",":">>
T_userSchools0 == <<"u","s","e","r",".","u","s","e","r","S","c","h","o","o","l","s","[","0","]">>
T_userSchools == <<"u","s","e","r","S","c","h","o","o","l","s",":">>

(***************************************************************************)
(* Regular expressions: a pattern is a sequence of elements, each a        *)
(* literal string, \s* or \s+.  (The capture group around the leading \s+  *)
(* is never referenced, the replacement being the empty string.)           *)
(***************************************************************************)
Lit(s) == [k |-> "lit", c |-> s]
WsStar == [k |-> "star", c |-> <<>>]
WsPlus == [k |-> "plus", c |-> <<>>]

\* r'(\s+)schoolId:\s*context\.schoolId,\s*//\s*CRITICAL:\s*Filter by school\s*\n'
Pattern1 ==
    <<WsPlus, Lit(T_schoolIdColon), WsStar, Lit(T_contextSchoolId), WsStar,
      Lit(T_slashes), WsStar, Lit(T_CRITICAL), WsStar, Lit(T_FilterBySchool),
      WsStar, Lit(LF)>>

\* r'(\s+)schoolId,\s*//\s*CRITICAL:\s*Filter by school\s*\n'
Pattern2 ==
    <<WsPlus, Lit(T_schoolIdComma), WsStar,
      Lit(T_slashes), WsStar, Lit(T_CRITICAL), WsStar, Lit(T_FilterBySchool),
      WsStar, Lit(LF)>>

\* What a failed match attempt yields (positions start at 1).
NoMatch == 0

Min(S) == CHOOSE x \in S : \A y \in S : x <= y

\* Length of the run of whitespace of s that starts at position i.
RECURSIVE SpaceRun(_, _)
SpaceRun(s, i) ==
    IF i <= Len(s) /\ s[i] \in WhiteSpace THEN 1 + SpaceRun(s, i + 1) ELSE 0

\* Match elements k.. of pat against s from position i: the position after the
\* match, or NoMatch.  A quantifier takes the longest run first and gives
\* characters back one at a time while the rest of the pattern fails.
RECURSIVE MatchAt(_, _, _, _), Backtrack(_, _, _, _, _)
MatchAt(pat, k, s, i) ==
    IF k > Len(pat) THEN i
    ELSE IF pat[k].k = "lit"
         THEN IF /\ i + Len(pat[k].c) - 1 <= Len(s)
                 /\ SubSeq(s, i, i + Len(pat[k].c) - 1) = pat[k].c
              THEN MatchAt(pat, k + 1, s, i + Len(pat[k].c))
              ELSE NoMatch
         ELSE Backtrack(pat, k, s,
                        IF pat[k].k = "plus" THEN i + 1 ELSE i,
                        i + SpaceRun(s, i))

Backtrack(pat, k, s, lo, j) ==
    IF j < lo THEN NoMatch
    ELSE LET r == MatchAt(pat, k + 1, s, j)
         IN  IF r # NoMatch THEN r ELSE Backtrack(pat, k, s, lo, j - 1)

\* Positions of s from i on at which pat matches.
MatchStarts(pat, s, i) == {j \in i..Len(s) : MatchAt(pat, 1, s, j) # NoMatch}

\* re.sub(pat, repl, s) for a replacement without group references: scan from
\* the left, replace each leftmost match, resume after it.
RECURSIVE SubFrom(_, _, _, _)
SubFrom(pat, repl, s, i) ==
    LET starts == MatchStarts(pat, s, i)
    IN  IF starts = {} THEN SubSeq(s, i, Len(s))
        ELSE SubSeq(s, i, Min(starts) - 1) \o repl
                 \o SubFrom(pat, repl, s, MatchAt(pat, 1, s, Min(starts)))

re_sub(pat, repl, s) == SubFrom(pat, repl, s, 1)

\* re.search(pat, s) is not None
re_search(pat, s) == MatchStarts(pat, s, 1) # {}

(***************************************************************************)
(* The three passes                                                        *)
(***************************************************************************)
\* Variant: each match is replaced by a marker comment instead of nothing.
fix_user_where_clause_marker(c) ==
    re_sub(Pattern2, <<"/", "*", "*", "/">>, re_sub(Pattern1, <<"/", "*", "*", "/">>, c))

fix_user_where_clause(c) == re_sub(Pattern2, <<>>, re_sub(Pattern1, <<>>, c))

\* Condition under which fix_teacher_references prints its warning.
TeacherWarning(c) == Contains(c, T_userTeacher) /\ ~Contains(c, T_include)

\* Variant: the pass leaves a note in the text where it warns.
fix_teacher_references_note(c) ==
    IF TeacherWarning(c) THEN c \o <<"/", "/", "?">> \o LF ELSE c

fix_teacher_references(c) == c

\* Condition under which fix_user_schools_references prints its warning.
SchoolsWarning(c) == Contains(c, T_userSchools0) /\ ~Contains(c, T_userSchools)

\* Variant: the pass leaves a note in the text where it warns.
fix_user_schools_references_note(c) ==
    IF SchoolsWarning(c) THEN c \o <<"/", "/", "?">> \o LF ELSE c

fix_user_schools_references(c) == c

(***************************************************************************)
(* Pure-function specification: apply fix_user_where_clause to a text, and *)
(* then to its own result.                                                 *)
(***************************************************************************)
P_plain == <<"a", "\n">>
P_line1 == <<" ">> \o T_schoolIdColon \o <<" ">> \o T_contextSchoolId \o <<" ">>
               \o T_slashes \o <<" ">> \o T_CRITICAL \o <<" ">> \o T_FilterBySchool \o LF
P_line2 == <<" ">> \o T_schoolIdComma \o <<" ">>
               \o T_slashes \o <<" ">> \o T_CRITICAL \o <<" ">> \o T_FilterBySchool \o LF
P_head1 == <<" ">> \o T_schoolIdColon \o <<" ">> \o T_contextSchoolId \o <<" ">> \o T_slashes
P_tail == T_CRITICAL \o <<" ">> \o T_FilterBySchool \o LF
P_bare2 == T_schoolIdComma \o <<" ">>
               \o T_slashes \o <<" ">> \o T_CRITICAL \o <<" ">> \o T_FilterBySchool
P_blank == LF
P_indent == <<" ", "b">>

FnPieces == {P_plain, P_line1, P_line2, P_head1, P_tail, P_bare2, P_blank, P_indent}

FnInputs == {Flatten(ps) : ps \in UNION {[1..n -> FnPieces] : n \in 0..MaxPieces}}

InitFn ==
    /\ fn_in \in FnInputs
    /\ fn_arg = <<>>
    /\ fn_out = <<>>
    /\ fn_runs = 0
    /\ pc = "fn"
    /\ linesep = LF
    /\ disk = <<>>
    /\ disk0 = <<>>
    /\ idx = 0
    /\ original = <<>>
    /\ content = <<>>
    /\ retval = FALSE
    /\ fixed_count = 0
    /\ log = <<>>
    /\ calls = <<>>
    /\ opened_w = {}
    /\ read_ok = {}

FnApply ==
    /\ pc = "fn"
    /\ fn_runs < MaxRuns
    /\ LET a == IF fn_runs = 0 THEN fn_in ELSE fn_out
       IN  /\ fn_arg' = a
           /\ fn_out' = fix_user_where_clause(a)
    /\ fn_runs' = fn_runs + 1
    /\ UNCHANGED <<fn_in, pc, batchVars>>

NextFn == FnApply

SpecFn == InitFn /\ [][NextFn]_vars

(***************************************************************************)
(* The file system and text-mode I/O                                       *)
(***************************************************************************)
\* files_to_fix: the paths, each standing for itself, in listed order.
files_to_fix == [i \in 1..NumTargets |-> i]

Missing == [exists |-> FALSE, data |-> <<>>]
File(d) == [exists |-> TRUE, data |-> d]

\* f.read() of a file opened in text mode with the default newline=None:
\* "\r\n" and a lone "\r" both arrive as "\n".
Decode(b) ==
    LET kept == SelectSeq([i \in 1..Len(b) |-> i],
                          LAMBDA i : ~(b[i] = "\r" /\ i < Len(b) /\ b[i + 1] = "\n"))
    IN  [k \in 1..Len(kept) |-> IF b[kept[k]] = "\r" THEN "\n" ELSE b[kept[k]]]

\* f.write() to a file opened in text mode with the default newline=None:
\* every "\n" leaves as os.linesep.
RECURSIVE Encode(_, _)
Encode(t, sep) ==
    LET nls == {i \in 1..Len(t) : t[i] = "\n"}
    IN  IF nls = {} THEN t
        ELSE SubSeq(t, 1, Min(nls) - 1) \o sep
                 \o Encode(SubSeq(t, Min(nls) + 1, Len(t)), sep)

\* What a write that fails can leave behind of n characters: open(.., 'w')
\* has truncated the file, and some whole blocks may have reached the disk.
PartialLens(n) == {k \in 0..(n - 1) : k % WriteBlock = 0}

\* Contents a target file may have before the run.
F_example == P_plain \o P_line1 \o P_indent \o LF
F_only == P_line2
F_crlf == <<"a">> \o CRLF \o <<" ">> \o P_bare2 \o CRLF \o <<"b">> \o CRLF
F_teacher == T_userTeacher \o LF
F_schools == T_userSchools0 \o LF
F_included == T_userTeacher \o LF \o T_userSchools0 \o LF
                  \o T_include \o <<" ">> \o T_userSchools \o LF
F_both == T_userTeacher \o LF \o T_userSchools0 \o LF \o P_line2

FileTexts == {F_example, F_only, F_crlf, F_teacher, F_schools, F_included, F_both}

FileStates == {Missing} \cup {File(d) : d \in FileTexts}

(***************************************************************************)
(* Console                                                                 *)
(***************************************************************************)
Line(kind, arg) == [kind |-> kind, arg |-> arg]

Outcomes == {"fixed", "nochange", "notfound", "error"}
Warnings == {"warn_teacher", "warn_schools"}

(***************************************************************************)
(* The batch: main and fix_file                                            *)
(***************************************************************************)
Init ==
    /\ linesep \in {LF, CRLF}
    /\ disk \in [1..NumTargets -> FileStates]
    /\ disk0 = disk
    /\ pc = "main"
    /\ idx = 0
    /\ original = <<>>
    /\ content = <<>>
    /\ retval = FALSE
    /\ fixed_count = 0
    /\ log = <<>>
    /\ calls = <<>>
    /\ opened_w = {}
    /\ read_ok = {}
    /\ fn_in = <<>>
    /\ fn_arg = <<>>
    /\ fn_out = <<>>
    /\ fn_runs = 0

filepath == files_to_fix[idx]

\* main: the banner, fixed_count = 0, and the start of the for loop.
MainStart ==
    /\ pc = "main"
    /\ log' = Append(log, Line("banner", 0))
    /\ fixed_count' = 0
    /\ idx' = 1
    /\ pc' = "loop"
    /\ UNCHANGED <<linesep, disk, disk0, original, content, retval, calls, opened_w, read_ok, fnVars>>

\* main calls fix_file on the next path; fix_file prints its start line.
CallFixFile ==
    /\ pc = "loop"
    /\ idx <= Len(files_to_fix)
    /\ calls' = Append(calls, filepath)
    /\ log' = Append(log, Line("start", filepath))
    /\ pc' = "open_r"
    /\ UNCHANGED <<linesep, disk, disk0, idx, original, content, retval, fixed_count,
                   opened_w, read_ok, fnVars>>

\* Variant: FileNotFoundError is not caught and ends the run.
ReadNotFoundAborts ==
    /\ pc = "open_r"
    /\ ~disk[filepath].exists
    /\ log' = Append(log, Line("notfound", filepath))
    /\ retval' = FALSE
    /\ pc' = "exit"
    /\ UNCHANGED <<linesep, disk, disk0, idx, original, content, fixed_count, calls,
                   opened_w, read_ok, fnVars>>

\* open(filepath, 'r') raises FileNotFoundError.
ReadNotFound ==
    /\ pc = "open_r"
    /\ ~disk[filepath].exists
    /\ log' = Append(log, Line("notfound", filepath))
    /\ retval' = FALSE
    /\ pc' = "ret"
    /\ UNCHANGED <<linesep, disk, disk0, idx, original, content, fixed_count, calls,
                   opened_w, read_ok, fnVars>>

\* Variant: an exception other than FileNotFoundError escapes fix_file and main.
ReadErrorAborts ==
    /\ pc = "open_r"
    /\ disk[filepath].exists
    /\ pc' = "aborted"
    /\ UNCHANGED <<batchVars, fnVars>>

\* open or read raises any other exception (permission denied, a directory,
\* bytes that are not UTF-8, an I/O error).
ReadError ==
    /\ pc = "open_r"
    /\ disk[filepath].exists
    /\ log' = Append(log, Line("error", filepath))
    /\ retval' = FALSE
    /\ pc' = "ret"
    /\ UNCHANGED <<linesep, disk, disk0, idx, original, content, fixed_count, calls,
                   opened_w, read_ok, fnVars>>

\* content = f.read(); original = content
ReadOk ==
    /\ pc = "open_r"
    /\ disk[filepath].exists
    /\ content' = Decode(disk[filepath].data)
    /\ original' = content'
    /\ read_ok' = read_ok \cup {filepath}
    /\ pc' = "passes"
    /\ UNCHANGED <<linesep, disk, disk0, idx, retval, fixed_count, log, calls,
                   opened_w, fnVars>>

\* The three passes in their fixed order, each on the result of the one before,
\* with the warnings the two detection passes print.
ApplyPasses ==
    /\ pc = "passes"
    /\ LET c1 == fix_user_where_clause(content)
           c2 == fix_teacher_references(c1)
           c3 == fix_user_schools_references(c2)
       IN  /\ content' = c3
           /\ log' = log
                \o (IF TeacherWarning(c1) THEN <<Line("warn_teacher", filepath)>> ELSE <<>>)
                \o (IF SchoolsWarning(c2) THEN <<Line("warn_schools", filepath)>> ELSE <<>>)
    /\ pc' = "compare"
    /\ UNCHANGED <<linesep, disk, disk0, idx, original, retval, fixed_count, calls,
                   opened_w, read_ok, fnVars>>

\* content == original: report and return False.
NoChange ==
    /\ pc = "compare"
    /\ content = original
    /\ log' = Append(log, Line("nochange", filepath))
    /\ retval' = FALSE
    /\ pc' = "ret"
    /\ UNCHANGED <<linesep, disk, disk0, idx, original, content, fixed_count, calls,
                   opened_w, read_ok, fnVars>>

\* content != original: open(filepath, 'w') truncates the file.
OpenWrite ==
    /\ pc = "compare"
    /\ content # original
    /\ disk' = [disk EXCEPT ![filepath] = File(<<>>)]
    /\ opened_w' = opened_w \cup {filepath}
    /\ pc' = "write"
    /\ UNCHANGED <<linesep, disk0, idx, original, content, retval, fixed_count, log,
                   calls, read_ok, fnVars>>

\* content != original, and open(filepath, 'w') raises (a read-only file).
OpenWriteError ==
    /\ pc = "compare"
    /\ content # original
    /\ log' = Append(log, Line("error", filepath))
    /\ retval' = FALSE
    /\ pc' = "ret"
    /\ UNCHANGED <<linesep, disk, disk0, idx, original, content, fixed_count, calls,
                   opened_w, read_ok, fnVars>>

\* f.write(content) and the close at the end of the with block succeed.
WriteOk ==
    /\ pc = "write"
    /\ disk' = [disk EXCEPT ![filepath] = File(Encode(content, linesep))]
    /\ log' = Append(log, Line("fixed", filepath))
    /\ retval' = TRUE
    /\ pc' = "ret"
    /\ UNCHANGED <<linesep, disk0, idx, original, content, fixed_count, calls,
                   opened_w, read_ok, fnVars>>

\* Variant: the failure of a write is swallowed without a line on the console.
WriteErrorSilent ==
    /\ pc = "write"
    /\ \E k \in PartialLens(Len(Encode(content, linesep))) :
           disk' = [disk EXCEPT ![filepath] = File(SubSeq(Encode(content, linesep), 1, k))]
    /\ retval' = FALSE
    /\ pc' = "ret"
    /\ UNCHANGED <<linesep, disk0, idx, original, content, fixed_count, log, calls,
                   opened_w, read_ok, fnVars>>

\* f.write(content) or the flush at close raises (disk full, I/O error).
WriteError ==
    /\ pc = "write"
    /\ \E k \in PartialLens(Len(Encode(content, linesep))) :
           disk' = [disk EXCEPT ![filepath] = File(SubSeq(Encode(content, linesep), 1, k))]
    /\ log' = Append(log, Line("error", filepath))
    /\ retval' = FALSE
    /\ pc' = "ret"
    /\ UNCHANGED <<linesep, disk0, idx, original, content, fixed_count, calls,
                   opened_w, read_ok, fnVars>>

\* Back in main: `if fix_file(filepath): fixed_count += 1`, next iteration.
\* fix_file's locals are gone.
Accumulate ==
    /\ pc = "ret"
    /\ fixed_count' = IF retval THEN fixed_count + 1 ELSE fixed_count
    /\ idx' = idx + 1
    /\ original' = <<>>
    /\ content' = <<>>
    /\ pc' = "loop"
    /\ UNCHANGED <<linesep, disk, disk0, retval, log, calls, opened_w, read_ok, fnVars>>

\* The loop is over: the summary line and the type-check reminder.
Summary ==
    /\ pc = "loop"
    /\ idx > Len(files_to_fix)
    /\ log' = log \o <<Line("summary", fixed_count), Line("reminder", 0)>>
    /\ pc' = "exit"
    /\ UNCHANGED <<linesep, disk, disk0, idx, original, content, retval, fixed_count,
                   calls, opened_w, read_ok, fnVars>>

Next ==
    \/ MainStart
    \/ CallFixFile
    \/ ReadNotFound
    \/ ReadError
    \/ ReadOk
    \/ ApplyPasses
    \/ NoChange
    \/ OpenWrite
    \/ OpenWriteError
    \/ WriteOk
    \/ WriteError
    \/ Accumulate
    \/ Summary

Spec == Init /\ [][Next]_vars

(***************************************************************************)
(* Properties                                                              *)
(***************************************************************************)
Last(q) == q[Len(q)]

\* The lines a text is made of, each with its terminator.
RECURSIVE SplitLines(_)
SplitLines(t) ==
    LET nls == {i \in 1..Len(t) : t[i] = "\n"}
    IN  IF t = <<>> THEN <<>>
        ELSE IF nls = {} THEN <<t>>
        ELSE <<SubSeq(t, 1, Min(nls))>> \o SplitLines(SubSeq(t, Min(nls) + 1, Len(t)))

\* A whole line, newline included, that one of the two patterns matches from
\* its indentation to its end: `  schoolId: context.schoolId, // CRITICAL:
\* Filter by school` or `  schoolId, // CRITICAL: Filter by school`.
ClauseLine(l) ==
    \/ MatchAt(Pattern1, 1, l, 1) = Len(l) + 1
    \/ MatchAt(Pattern2, 1, l, 1) = Len(l) + 1

WithoutClauseLines(t) ==
    Flatten(SelectSeq(SplitLines(t), LAMBDA l : ~ClauseLine(l)))

HasClauseLine(t) == \E k \in 1..Len(SplitLines(t)) : ClauseLine(SplitLines(t)[k])

\* Neither removal pattern occurs in the text.
NoPattern(t) == ~re_search(Pattern1, t) /\ ~re_search(Pattern2, t)

\* How far into a the leftmost embedding of a in b has got, from position n of
\* a, once b[lo..hi] has been read.
RECURSIVE Embed(_, _, _, _, _)
Embed(a, b, n, lo, hi) ==
    IF lo > hi THEN n
    ELSE IF lo = hi THEN (IF n < Len(a) /\ a[n + 1] = b[lo] THEN n + 1 ELSE n)
    ELSE LET mid == (lo + hi) \div 2
             m == Embed(a, b, n, lo, mid)
         IN  IF m = Len(a) THEN m ELSE Embed(a, b, m, mid + 1, hi)

\* a is b with some characters deleted.
IsSubsequence(a, b) == Embed(a, b, 0, 1, Len(b)) = Len(a)

\* The complete transformed text of a file, as a successful run writes it.
Transformed(f) == File(Encode(fix_user_where_clause(Decode(f.data)), linesep))

Changed(p) == disk[p] # disk0[p]

\* fix_file is between reading the current file and returning to main.
InFile == pc \in {"compare", "write", "ret"} /\ filepath \in read_ok

\* ---- C1 -----------------------------------------------------------------
\* C1: fix_user_where_clause is idempotent: applied to its own output it
\* returns that output unchanged.
C1_Idempotent == fn_runs >= 2 => fn_out = fn_arg

\* ---- C2 -----------------------------------------------------------------
\* C2: for a text with a clause line, the output of fix_user_where_clause is
\* the input with exactly the clause lines removed, every other line intact,
\* on its own line and in order.
C2_ExactLineRemoval ==
    (fn_runs = 1 /\ HasClauseLine(fn_in)) => fn_out = WithoutClauseLines(fn_in)

\* ---- C3 -----------------------------------------------------------------
\* C3: at every point of a run each target file holds either its content from
\* before the run or the complete transformed text.
C3_UnchangedOrComplete ==
    \A p \in 1..NumTargets :
        \/ disk[p] = disk0[p]
        \/ disk0[p].exists /\ disk[p] = Transformed(disk0[p])

\* ---- C4 -----------------------------------------------------------------
\* C4: for a text with neither removal pattern, the transformed text equals
\* the input, the file is never opened for writing and stays as it was, and
\* fix_file reports 'No changes needed' and returns False, warnings or not.
\* (Stated as: once the file is read, either all of that holds or the text
\* read had a pattern in it.)
C4_NoPatternNoWrite ==
    InFile =>
        \/ /\ content = original
           /\ pc # "write"
           /\ filepath \notin opened_w
           /\ disk[filepath] = disk0[filepath]
           /\ pc = "ret" => (Last(log) = Line("nochange", filepath) /\ retval = FALSE)
        \/ ~NoPattern(original)

C4_Witness ==
    /\ pc = "ret"
    /\ filepath \in read_ok
    /\ NoPattern(original)
    /\ Last(log).kind = "nochange"
    /\ log[Len(log) - 1].kind \in Warnings

\* ---- C5 -----------------------------------------------------------------
\* C5: a missing target is reported as not found, fix_file returns False for
\* it, and every target listed after it is still processed.
C5_MissingSkipped ==
    \A p \in 1..NumTargets :
        ~disk0[p].exists =>
            /\ (pc = "ret" /\ filepath = p) =>
                   (Last(log) = Line("notfound", p) /\ retval = FALSE)
            /\ pc = "exit" =>
                   \A q \in (p + 1)..NumTargets : \E i \in 1..Len(calls) : calls[i] = q

C5_Witness ==
    /\ pc = "exit"
    /\ ~disk0[1].exists
    /\ \E i \in 1..Len(log) : log[i] = Line("notfound", 1)
    /\ \E i \in 1..Len(calls) : calls[i] = NumTargets

\* ---- C6 -----------------------------------------------------------------
\* Every step other than ApplyPasses, whose only guard is pc = "passes".
OtherSteps ==
    \/ MainStart
    \/ CallFixFile
    \/ ReadNotFound
    \/ ReadError
    \/ ReadOk
    \/ NoChange
    \/ OpenWrite
    \/ OpenWriteError
    \/ WriteOk
    \/ WriteError
    \/ Accumulate
    \/ Summary

\* The run can go on: it is never stuck short of its normal end.
CanStep == pc = "passes" \/ ENABLED OtherSteps

\* An upper bound on the number of steps left before the normal end.
StepsLeft ==
    CASE pc = "exit" -> 0
      [] pc = "main" -> 7 * (NumTargets + 1) + 1
      [] pc = "loop" -> 7 * (NumTargets + 1 - idx) + 6
      [] pc = "open_r" -> 7 * (NumTargets + 1 - idx) + 5
      [] pc = "passes" -> 7 * (NumTargets + 1 - idx) + 4
      [] pc = "compare" -> 7 * (NumTargets + 1 - idx) + 3
      [] pc = "write" -> 7 * (NumTargets + 1 - idx) + 2
      [] pc = "ret" -> 7 * (NumTargets + 1 - idx) + 1
      [] OTHER -> -1

\* C6: whatever the per-file outcomes, the run comes to its normal end with
\* fix_file invoked on every target exactly once in listed order, the summary
\* and the reminder being the last two lines printed: short of the end a step
\* is always possible, every step brings the end nearer, and the calls made
\* are at each moment the first entries of files_to_fix.
C6_RunsToCompletion ==
    /\ [](pc = "exit" \/ CanStep)
    /\ [][StepsLeft' < StepsLeft /\ StepsLeft' >= 0]_vars
    /\ [](calls = SubSeq(files_to_fix, 1, Len(calls)))
    /\ [](pc = "exit" =>
            /\ calls = files_to_fix
            /\ Len(log) >= 2
            /\ log[Len(log) - 1] = Line("summary", fixed_count)
            /\ Last(log).kind = "reminder")

C6_Witness ==
    /\ pc = "exit"
    /\ calls = files_to_fix
    /\ \E i \in 1..Len(log) : log[i].kind = "error"
    /\ \E i \in 1..Len(log) : log[i].kind = "notfound"

\* ---- C7 -----------------------------------------------------------------
\* C7: fix_file returns True exactly when the file on disk differs from what
\* it was before the call, and the summary count is the number of files the
\* run changed.
C7_CountIsChanged ==
    /\ pc = "ret" => (retval <=> Changed(filepath))
    /\ pc = "exit" => fixed_count = Cardinality({p \in 1..NumTargets : Changed(p)})

\* ---- C8 -----------------------------------------------------------------
\* C8: the two detection passes return their input unchanged, and whether a
\* file is written, and with what, is decided by the output of
\* fix_user_where_clause alone.
C8_DetectionIsObservational ==
    InFile =>
        LET fixed == fix_user_where_clause(original)
        IN  /\ fix_teacher_references(original) = original
            /\ fix_user_schools_references(original) = original
            /\ fix_teacher_references(content) = content
            /\ fix_user_schools_references(content) = content
            /\ content = fixed
            /\ (pc = "write" \/ filepath \in opened_w) => fixed # original
            /\ (pc = "ret" /\ Last(log).kind = "nochange") => fixed = original
            /\ (pc = "ret" /\ retval) => disk[filepath] = File(Encode(fixed, linesep))

C8_Witness ==
    /\ pc = "ret"
    /\ retval
    /\ \E i \in 1..Len(log) : log[i] = Line("warn_teacher", filepath)
    /\ \E i \in 1..Len(log) : log[i] = Line("warn_schools", filepath)

\* ---- C9 -----------------------------------------------------------------
\* C9: per target the console shows the start line, then the warnings, then
\* exactly one outcome line; targets follow one another without interleaving
\* and the summary comes after the last target's outcome.
C9_ConsoleOrder ==
    /\ \A k \in 1..Len(log) :
        LET l == log[k]
            prev == log[k - 1]
        IN  CASE l.kind = "banner" -> k = 1
              [] l.kind = "start" ->
                    /\ k > 1
                    /\ \/ prev.kind = "banner" /\ l.arg = 1
                       \/ prev.kind \in Outcomes /\ l.arg = prev.arg + 1
              [] l.kind \in Warnings ->
                    /\ k > 1
                    /\ prev.kind \in {"start"} \cup Warnings
                    /\ prev.arg = l.arg
              [] l.kind \in Outcomes ->
                    /\ k > 1
                    /\ prev.kind \in {"start"} \cup Warnings
                    /\ prev.arg = l.arg
              [] l.kind = "summary" ->
                    /\ k > 1
                    /\ prev.kind \in Outcomes
                    /\ prev.arg = NumTargets
              [] l.kind = "reminder" -> k > 1 /\ prev.kind = "summary"
              [] OTHER -> FALSE
    /\ pc = "exit" => Last(log).kind = "reminder"
    /\ pc = "ret" => (Last(log).kind \in Outcomes /\ Last(log).arg = filepath)

C9_Witness ==
    /\ pc = "exit"
    /\ \E i \in 1..Len(log) : log[i].kind = "warn_teacher"
    /\ \E i \in 1..Len(log) : log[i].kind = "fixed"
    /\ \E i \in 1..Len(log) : log[i].kind = "error"

\* ---- C10 ----------------------------------------------------------------
\* C10: the run only deletes text: when fix_file returns True the text it
\* wrote is strictly shorter than the text it read and arises from it by
\* deleting characters, and a path missing before the run stays missing.
C10_OnlyDeletes ==
    /\ (pc = "ret" /\ retval) =>
           /\ disk[filepath] = File(Encode(content, linesep))
           /\ Len(content) < Len(original)
           /\ IsSubsequence(content, original)
    /\ \A p \in 1..NumTargets : ~disk0[p].exists => ~disk[p].exists

C10_Witness ==
    /\ pc = "ret"
    /\ retval
    /\ Len(content) > 0
    /\ \E p \in 1..NumTargets : p < filepath /\ ~disk0[p].exists /\ ~disk[p].exists

====
